---- MODULE Spec2Model ----
(***************************************************************************)
(* Trend-signal resolution pipeline of server.ts: the handler of           *)
(* GET /api/trending/search (cache check, Google Trends fetch, Gemini      *)
(* enrichment, merge, fallback, persistence), the trending_keywords table  *)
(* it reads and writes, and the two other writers of that table (the       *)
(* startup seed and POST /api/admin/update-trends).                        *)
(*                                                                         *)
(* Conventions of the model:                                               *)
(*  - a JS object is a record whose DOMAIN holds the keys that are         *)
(*    present; a key that is undefined is a key that is missing;           *)
(*  - JS null, JS undefined (as a whole value) and SQL NULL are the        *)
(*    records null / undefined below;                                      *)
(*  - a date is a day number relative to today (0 = today);                *)
(*  - the clock counts ticks of MinutesPerTick minutes;                    *)
(*  - the AUTOINCREMENT id column is left out: no property here reads it.  *)
(***************************************************************************)
EXTENDS Integers, Sequences, FiniteSets, TLC

(***************************************************************************)
(* Bounds of the model                                                     *)
(***************************************************************************)
NumRequests == 2        \* handlers in flight at the same time
MaxTime == 2            \* last clock tick
MinutesPerTick == 5     \* minutes between two clock ticks
MaxSeries == 8          \* longest time series a provider returns
MaxRanked == 6          \* longest ranked related-term list of Google Trends
MaxAiRelated == 9       \* longest related list Gemini returns

(***************************************************************************)
(* Program constants                                                       *)
(***************************************************************************)
TTL_MINUTES == 10               \* datetime('now', '-10 minutes')
DEFAULT_MOMENTUM == 50          \* aiData.momentum_score || 50
DEFAULT_VOLUME == 1000          \* aiData.search_volume || 1000
MOMENTUM_BASE == 50             \* 50 + (lastPoint - prevPoint) * 2
MOMENTUM_GAIN == 2
MOMENTUM_MAX == 100
VOLUME_SCALE == 1000            \* lastPoint * 1000
RELATED_TOP == 5                \* .slice(0, 5)
RELATED_CAP == 8                \* .slice(0, 8)
FALLBACK_MOMENTUM == 72
FALLBACK_VOLUME == 12500
FALLBACK_DAYS == 7              \* Array.from({ length: 7 }, ...)
RANDOM_BASE == 40               \* 40 + Math.floor(Math.random() * 60)
RANDOM_SPAN == 60

null == [null |-> TRUE]
undefined == [undefined |-> TRUE]

Requests == 1..NumRequests
Times == 0..MaxTime

(***************************************************************************)
(* Helpers for JS sequences                                                *)
(***************************************************************************)
Min(a, b) == IF a < b THEN a ELSE b
Max(a, b) == IF a > b THEN a ELSE b

\* slice with no end index: the whole array
Slice_NoEnd(s, n) == s

\* Array.prototype.slice(0, n)
Slice(s, n) == SubSeq(s, 1, Min(n, Len(s)))

Elems(s) == {s[i] : i \in 1..Len(s)}

\* [...new Set(s)]: the elements of s in first-seen order, later duplicates dropped
RECURSIVE SetOrder(_)
SetOrder(s) ==
    IF s = <<>> THEN <<>>
    ELSE LET front == SetOrder(SubSeq(s, 1, Len(s) - 1))
             x == s[Len(s)]
         IN  IF x \in Elems(front) THEN front ELSE Append(front, x)

\* JSON.stringify / JSON.parse of an array of strings or of {date, value} points:
\* the text holds exactly the array's elements and present keys, in order.
\* A text is [fenced, ok, json]: ok says that the text between the fences is
\* JSON, json is the value it denotes.
JSONstringify(v) == [fenced |-> FALSE, ok |-> TRUE, json |-> v]
\* JSON.parse throws on a text that is not JSON, code fences included
Parsable(t) == t.ok /\ ~t.fenced
JSONparse(t) == t.json
\* text.replace(/```json/g, "").replace(/```/g, "").trim()
StripFences(t) == [t EXCEPT !.fenced = FALSE]

EmptyArrayText == JSONstringify(<<>>)
EmptyObject == [x \in {} |-> TRUE]
EmptyObjectText == JSONstringify(EmptyObject)
Unparsable == [fenced |-> FALSE, ok |-> FALSE, json |-> null]
Rejected == [rejected |-> TRUE]

\* obj.key || dflt for a numeric key (0 and a missing key are falsy)
NumOr(obj, key, dflt) ==
    IF key \in DOMAIN obj /\ obj[key] # 0 THEN obj[key] ELSE dflt
\* obj.key || dflt for a string key ("" and a missing key are falsy)
StrOr(obj, key, dflt) ==
    IF key \in DOMAIN obj /\ obj[key] # "" THEN obj[key] ELSE dflt
\* obj.key || dflt for an array key (every array is truthy)
ArrOr(obj, key, dflt) ==
    IF key \in DOMAIN obj THEN obj[key] ELSE dflt

(***************************************************************************)
(* What the two providers may answer                                       *)
(***************************************************************************)
Term(i) == "t" \o ToString(i)
ValueSamples == {0, 10, 40}

\* a series of n daily samples ending today; the last is `last`, the others `prev`
Series(n, prev, last) ==
    [i \in 1..n |-> [formattedTime |-> i - n,
                     value |-> << IF i = n THEN last ELSE prev >>]]
Ranked(n) == [i \in 1..n |-> [query |-> Term(i)]]

InterestOverTimeResults ==
    {Rejected, Unparsable, JSONstringify(EmptyObject)}
    \cup {JSONstringify([default |-> [timelineData |-> Series(n, p, l)]]) :
            n \in 0..MaxSeries, p \in ValueSamples, l \in ValueSamples}
RelatedQueriesResults ==
    {Rejected, Unparsable, JSONstringify(EmptyObject),
     JSONstringify([default |-> [rankedList |-> <<>>]])}
    \cup {JSONstringify([default |-> [rankedList |-> <<[rankedKeyword |-> Ranked(n)]>>]]) :
            n \in 0..MaxRanked}

(***************************************************************************)
(* fetchRealTrends                                                         *)
(***************************************************************************)
\* Math.round of a number that is an integer already
MathRound(x) == x

\* fetchRealTrends that settles the two calls apart (Promise.allSettled): when only
\* relatedQueries fails, the interest series is still returned, with no related terms
fetchRealTrends_Partial(iot, rq) ==
    IF iot = Rejected THEN null
    ELSE IF ~Parsable(iot) THEN null
    ELSE LET interestOverTime == JSONparse(iot)
         IN  IF "default" \notin DOMAIN interestOverTime
             THEN null
             ELSE
             LET timelineData == interestOverTime.default.timelineData
                 history == [i \in 1..Len(timelineData) |->
                               [date |-> timelineData[i].formattedTime,
                                value |-> timelineData[i].value[1]]]
                 n == Len(history)
                 lastPoint == IF n >= 1 THEN history[n].value ELSE 0
                 prevPoint == IF n >= 2 THEN history[n - 1].value ELSE 0
                 momentum == Min(MOMENTUM_MAX,
                                 Max(0, MOMENTUM_BASE + (lastPoint - prevPoint) * MOMENTUM_GAIN))
                 rankedList == IF rq = Rejected THEN <<>>
                               ELSE IF ~Parsable(rq) THEN <<>>
                               ELSE IF "default" \notin DOMAIN JSONparse(rq) THEN <<>>
                               ELSE JSONparse(rq).default.rankedList
                 related == IF Len(rankedList) = 0 THEN <<>>
                            ELSE Slice([i \in 1..Len(rankedList[1].rankedKeyword) |->
                                          rankedList[1].rankedKeyword[i].query], RELATED_TOP)
             IN  [momentum_score |-> MathRound(momentum),
                  search_volume |-> MathRound(lastPoint * VOLUME_SCALE),
                  related |-> related,
                  history |-> history]

\* fetchRealTrends without Math.min(100, Math.max(0, ...))
fetchRealTrends_NoClamp(iot, rq) ==
    IF iot = Rejected \/ rq = Rejected THEN null
    ELSE IF ~Parsable(iot) \/ ~Parsable(rq) THEN null
    ELSE LET interestOverTime == JSONparse(iot)
             relatedQueries == JSONparse(rq)
         IN  IF "default" \notin DOMAIN interestOverTime
                \/ "default" \notin DOMAIN relatedQueries
             THEN null
             ELSE
             LET timelineData == interestOverTime.default.timelineData
                 history == [i \in 1..Len(timelineData) |->
                               [date |-> timelineData[i].formattedTime,
                                value |-> timelineData[i].value[1]]]
                 n == Len(history)
                 lastPoint == IF n >= 1 THEN history[n].value ELSE 0
                 prevPoint == IF n >= 2 THEN history[n - 1].value ELSE 0
                 momentum == MOMENTUM_BASE + (lastPoint - prevPoint) * MOMENTUM_GAIN
                 rankedList == relatedQueries.default.rankedList
                 related == IF Len(rankedList) = 0 THEN <<>>
                            ELSE Slice([i \in 1..Len(rankedList[1].rankedKeyword) |->
                                          rankedList[1].rankedKeyword[i].query], RELATED_TOP)
             IN  [momentum_score |-> MathRound(momentum),
                  search_volume |-> MathRound(lastPoint * VOLUME_SCALE),
                  related |-> related,
                  history |-> history]

fetchRealTrends(iot, rq) ==
    IF iot = Rejected \/ rq = Rejected THEN null           \* Promise.all rejects
    ELSE IF ~Parsable(iot) \/ ~Parsable(rq) THEN null      \* JSON.parse throws
    ELSE LET interestOverTime == JSONparse(iot)
             relatedQueries == JSONparse(rq)
         IN  IF "default" \notin DOMAIN interestOverTime
                \/ "default" \notin DOMAIN relatedQueries
             THEN null                                     \* TypeError
             ELSE
             LET timelineData == interestOverTime.default.timelineData
                 history == [i \in 1..Len(timelineData) |->
                               [date |-> timelineData[i].formattedTime,
                                value |-> timelineData[i].value[1]]]
                 n == Len(history)
                 lastPoint == IF n >= 1 THEN history[n].value ELSE 0
                 prevPoint == IF n >= 2 THEN history[n - 1].value ELSE 0
                 momentum == Min(MOMENTUM_MAX,
                                 Max(0, MOMENTUM_BASE + (lastPoint - prevPoint) * MOMENTUM_GAIN))
                 rankedList == relatedQueries.default.rankedList
                 related == IF Len(rankedList) = 0 THEN <<>>
                            ELSE Slice([i \in 1..Len(rankedList[1].rankedKeyword) |->
                                          rankedList[1].rankedKeyword[i].query], RELATED_TOP)
             IN  [momentum_score |-> MathRound(momentum),
                  search_volume |-> MathRound(lastPoint * VOLUME_SCALE),
                  related |-> related,
                  history |-> history]

(***************************************************************************)
(* Gemini: what generateContent may answer, and the merge                  *)
(***************************************************************************)
DayPoint(d, v) == [date |-> d, value |-> v]
\* n daily points ending today
Hist(n) == [i \in 1..n |-> DayPoint(i - n, 50 + i)]
\* the same points, latest first
HistReversed(n) == [i \in 1..n |-> DayPoint(1 - i, 50 + i)]
AiRelated(n) == [i \in 1..n |-> Term(i + 4)]

\* the objects with key `key` missing or bound to one of `vals`
Opt(key, vals) == {EmptyObject} \cup {key :> v : v \in vals}

\* the shape the prompt asks for when Google Trends data is passed along
SteeredObjects ==
    {c @@ v @@ r : c \in Opt("category", {"", "Home Decor"}),
                   v \in Opt("pinterest_volume", {0, 7000}),
                   r \in Opt("pinterest_related",
                             {<<>>, <<"t1", "t9">>, AiRelated(RELATED_TOP)})}
\* the shape the prompt asks for when there is no Google Trends data
UnsteeredObjects ==
    {c @@ m @@ v @@ r @@ h :
        c \in Opt("category", {"Home Decor"}),
        m \in Opt("momentum_score", {0, 64, 150}),
        v \in Opt("search_volume", {0, 9000}),
        r \in Opt("related", {<<"t1", "t1">>, AiRelated(RELATED_TOP), AiRelated(MaxAiRelated)}),
        h \in Opt("history", {Hist(FALLBACK_DAYS), Hist(MaxSeries), HistReversed(2)})}
AiObjects == SteeredObjects \cup UnsteeredObjects

GenerateContentResults ==
    {Rejected, [text |-> undefined], [text |-> Unparsable], [text |-> JSONstringify(null)]}
    \cup {[text |-> [fenced |-> f, ok |-> TRUE, json |-> o]] :
            f \in BOOLEAN, o \in AiObjects}

\* let text = response.text || "{}"; text = text.replace(...).trim()
aiText(response) ==
    StripFences(IF response.text = undefined THEN EmptyObjectText ELSE response.text)

\* the try block throws before the merge: generateContent rejects, JSON.parse
\* throws, or aiData is null (aiData.category is a TypeError)
aiThrows(response) ==
    IF response = Rejected THEN TRUE
    ELSE IF ~Parsable(aiText(response)) THEN TRUE
    ELSE JSONparse(aiText(response)) = null

\* x / 2 ; the volumes of the model are even numbers, so the division is exact
Half(x) == x \div 2

\* finalData without the Set: the two lists are concatenated and cut
finalData_NoSet(realData, aiData) ==
    [category |-> StrOr(aiData, "category", "General"),
     momentum_score |->
        IF realData # null THEN realData.momentum_score
        ELSE NumOr(aiData, "momentum_score", DEFAULT_MOMENTUM),
     search_volume |->
        IF realData # null
        THEN Half(realData.search_volume + NumOr(aiData, "pinterest_volume", 0))
        ELSE NumOr(aiData, "search_volume", DEFAULT_VOLUME),
     related |->
        IF realData # null
        THEN Slice(realData.related \o ArrOr(aiData, "pinterest_related", <<>>),
                   RELATED_CAP)
        ELSE ArrOr(aiData, "related", <<>>),
     history |->
        IF realData # null THEN realData.history ELSE ArrOr(aiData, "history", <<>>)]

finalData(realData, aiData) ==
    [category |-> StrOr(aiData, "category", "General"),
     momentum_score |->
        IF realData # null THEN realData.momentum_score
        ELSE NumOr(aiData, "momentum_score", DEFAULT_MOMENTUM),
     search_volume |->
        IF realData # null
        THEN Half(realData.search_volume + NumOr(aiData, "pinterest_volume", 0))
        ELSE NumOr(aiData, "search_volume", DEFAULT_VOLUME),
     related |->
        IF realData # null
        THEN Slice(SetOrder(realData.related \o ArrOr(aiData, "pinterest_related", <<>>)),
                   RELATED_CAP)
        ELSE ArrOr(aiData, "related", <<>>),
     history |->
        IF realData # null THEN realData.history ELSE ArrOr(aiData, "history", <<>>)]

(***************************************************************************)
(* State                                                                   *)
(***************************************************************************)
VARIABLES
    now,                \* the clock, in ticks
    trending_keywords,  \* the table: a set of rows
    pc,                 \* pc[r]: where the handler of request r stands
    q,                  \* q[r]: req.query.q
    existing,           \* existing[r]: the row the cache check read
    realData,           \* realData[r]: what fetchRealTrends returned
    aiOk,               \* aiOk[r]: generateContent answered and aiData was usable
    aiData,             \* aiData[r]: the parsed Gemini answer
    path,               \* path[r]: "hit", "merge" or "fallback" once served
    response,           \* response[r]: the body of res.json
    writes,             \* writes[r]: the rows request r has written, in order
    calls,              \* calls[r]: provider calls issued by request r
    results,            \* results[r]: what the two Google Trends calls answered,
                        \*   kept while the handler waits for Gemini
    prompt,             \* prompt[r]: the keys the prompt sent to Gemini asks for
    lastServed          \* lastServed[k]: the last cache-miss resolution served for k

vars == <<now, trending_keywords, pc, q, existing, realData, aiOk, aiData, path,
          response, writes, calls, results, prompt, lastServed>>

mockTrends ==
    {[keyword |-> "Minimalist Home Decor", source |-> "Pinterest", category |-> "Home",
      momentum_score |-> 95, search_volume |-> 50000],
     [keyword |-> "Sustainable Fashion 2024", source |-> "Google", category |-> "Fashion",
      momentum_score |-> 88, search_volume |-> 30000],
     [keyword |-> "Quick Vegan Recipes", source |-> "Pinterest", category |-> "Food",
      momentum_score |-> 92, search_volume |-> 45000],
     [keyword |-> "iOS 18 Customization", source |-> "Google", category |-> "Tech",
      momentum_score |-> 98, search_volume |-> 120000],
     [keyword |-> "Self-Care Sunday Routine", source |-> "Social", category |-> "Lifestyle",
      momentum_score |-> 85, search_volume |-> 25000]}

\* the queries the requests of the model carry
Queries == {"boho", "Quick Vegan Recipes"}
OneQuery == {"boho"}
\* spellings of one keyword: ?q=boho, ?q=Boho, ?q=%20boho%20
KeyQueries == {"boho", "Boho", " boho "}
AllQueries == Queries \cup KeyQueries

\* INSERT ... (keyword, source, category, momentum_score, search_volume): the two
\* text columns are NULL, last_updated is DEFAULT CURRENT_TIMESTAMP
mockRow(t, at) ==
    [keyword |-> t.keyword, source |-> t.source, category |-> t.category,
     momentum_score |-> t.momentum_score, search_volume |-> t.search_volume,
     related_keywords |-> null, historical_data |-> null, last_updated |-> at]

\* InsertOrReplace on a keyword column that is not UNIQUE: nothing is replaced
InsertOrReplace_NoUnique(table, row) == table \cup {row}

\* InsertOrReplace as an update in place that leaves the stored history alone
InsertOrReplace_KeepHistory(table, row) ==
    {old \in table : old.keyword # row.keyword}
    \cup {[row EXCEPT !.historical_data =
                IF \E old \in table : old.keyword = row.keyword
                THEN (CHOOSE old \in table : old.keyword = row.keyword).historical_data
                ELSE row.historical_data]}

\* InsertOrReplace with the conflict clause of the seed (OR IGNORE): a stored entry wins
InsertOrReplace_Ignore(table, row) ==
    IF \E old \in table : old.keyword = row.keyword THEN table ELSE table \cup {row}

\* InsertOrReplace that also purges the entries older than the TTL
InsertOrReplace_Purge(table, row) ==
    {old \in table : /\ old.keyword # row.keyword
                     /\ (row.last_updated - old.last_updated) * MinutesPerTick < TTL_MINUTES}
    \cup {row}

\* INSERT OR REPLACE against the UNIQUE keyword column
InsertOrReplace(table, row) ==
    {old \in table : old.keyword # row.keyword} \cup {row}

\* INSERT OR IGNORE against the UNIQUE keyword column
InsertOrIgnore(table, row) ==
    IF \E old \in table : old.keyword = row.keyword THEN table ELSE table \cup {row}

\* Fresh with the '-10 minutes' modifier left out
Fresh_NoWindow(row, at) ==
    row.last_updated * MinutesPerTick > at * MinutesPerTick

\* Fresh with >= in place of >: an entry aged exactly 10 minutes still counts
Fresh_Inclusive(row, at) ==
    row.last_updated * MinutesPerTick >= at * MinutesPerTick - TTL_MINUTES

\* last_updated > datetime('now', '-10 minutes')
Fresh(row, at) ==
    row.last_updated * MinutesPerTick > at * MinutesPerTick - TTL_MINUTES

\* SELECT * FROM trending_keywords WHERE keyword = ? AND last_updated > ... : .get(q)
SelectFresh(table, key, at) ==
    LET rows == {row \in table : row.keyword = key /\ Fresh(row, at)}
    IN  IF rows = {} THEN undefined ELSE CHOOSE row \in rows : TRUE

\* SELECT * FROM trending_keywords WHERE keyword = ? : .get(q)
SelectRow(table, key) ==
    LET rows == {row \in table : row.keyword = key}
    IN  IF rows = {} THEN undefined ELSE CHOOSE row \in rows : TRUE

\* JSON.parse(column || "[]")
ParseColumn(column) ==
    JSONparse(IF column = null THEN EmptyArrayText ELSE column)

\* hitResponse that reads both text columns as "[]"
hitResponse_EmptyLists(row) ==
    [row EXCEPT !.related_keywords = <<>>, !.historical_data = <<>>]

\* { ...existing, related_keywords: JSON.parse(...), historical_data: JSON.parse(...) }
hitResponse(row) ==
    [row EXCEPT !.related_keywords = ParseColumn(row.related_keywords),
                !.historical_data = ParseColumn(row.historical_data)]

\* mergedRow with one tag for both merges
mergedRow_OneTag(key, rd, fd, at) ==
    [keyword |-> key,
     source |-> "AI",
     category |-> fd.category,
     momentum_score |-> fd.momentum_score,
     search_volume |-> fd.search_volume,
     related_keywords |-> JSONstringify(fd.related),
     historical_data |-> JSONstringify(fd.history),
     last_updated |-> at]

\* the row of the merge path
mergedRow(key, rd, fd, at) ==
    [keyword |-> key,
     source |-> IF rd # null THEN "Google Trends + AI" ELSE "Trends AI",
     category |-> fd.category,
     momentum_score |-> fd.momentum_score,
     search_volume |-> fd.search_volume,
     related_keywords |-> JSONstringify(fd.related),
     historical_data |-> JSONstringify(fd.history),
     last_updated |-> at]

\* { ...result, related_keywords: finalData.related, historical_data: finalData.history }
mergeResponse(result, fd) ==
    [result EXCEPT !.related_keywords = fd.related, !.historical_data = fd.history]

\* the day of clock tick t: every tick of a behaviour falls on the same day, day 0
Today(t) == 0

RandomSamples == {0, RANDOM_SPAN - 1}       \* Math.floor(Math.random() * 60)
RandomVectors == [1..FALLBACK_DAYS -> RandomSamples]
ConstantVectors == {[i \in 1..FALLBACK_DAYS |-> v] : v \in RandomSamples}

\* mockHistory with the day offset counted from 1: the series ends tomorrow
mockHistory_DayOff(rnd, at) ==
    [i \in 1..FALLBACK_DAYS |->
        [date |-> Today(at) - (FALLBACK_DAYS - 1 - i), value |-> RANDOM_BASE + rnd[i]]]

mockHistory(rnd, at) ==
    [i \in 1..FALLBACK_DAYS |->
        [date |-> Today(at) - (FALLBACK_DAYS - i), value |-> RANDOM_BASE + rnd[i]]]

fallbackData(key, rnd, at) ==
    [keyword |-> key,
     source |-> "Fallback",
     category |-> "General",
     momentum_score |-> FALLBACK_MOMENTUM,
     search_volume |-> FALLBACK_VOLUME,
     related_keywords |-> <<key \o " ideas", key \o " aesthetic", "best " \o key,
                            key \o " diy", key \o " trends">>,
     historical_data |-> mockHistory(rnd, at)]

\* fallbackRow stamped outside the freshness window
fallbackRow_Stale(fb, at) ==
    [keyword |-> fb.keyword,
     source |-> "Fallback",
     category |-> fb.category,
     momentum_score |-> fb.momentum_score,
     search_volume |-> fb.search_volume,
     related_keywords |-> JSONstringify(fb.related_keywords),
     historical_data |-> JSONstringify(fb.historical_data),
     last_updated |-> at - 2]

fallbackRow(fb, at) ==
    [keyword |-> fb.keyword,
     source |-> "Fallback",
     category |-> fb.category,
     momentum_score |-> fb.momentum_score,
     search_volume |-> fb.search_volume,
     related_keywords |-> JSONstringify(fb.related_keywords),
     historical_data |-> JSONstringify(fb.historical_data),
     last_updated |-> at]

RECURSIVE InsertAllOrIgnore(_, _, _)
InsertAllOrIgnore(table, trends, at) ==
    IF trends = {} THEN table
    ELSE LET t == CHOOSE t \in trends : TRUE
         IN  InsertAllOrIgnore(InsertOrIgnore(table, mockRow(t, at)), trends \ {t}, at)

RECURSIVE InsertAllOrReplace(_, _, _)
InsertAllOrReplace(table, trends, at) ==
    IF trends = {} THEN table
    ELSE LET t == CHOOSE t \in trends : TRUE
         IN  InsertAllOrReplace(InsertOrReplace(table, mockRow(t, at)), trends \ {t}, at)

(***************************************************************************)
(* Init: the server has started on an empty database and has seeded it     *)
(***************************************************************************)
Init ==
    /\ now = 0
    /\ trending_keywords = InsertAllOrIgnore({}, mockTrends, 0)
    /\ pc = [r \in Requests |-> "new"]
    /\ q = [r \in Requests |-> ""]
    /\ existing = [r \in Requests |-> undefined]
    /\ realData = [r \in Requests |-> null]
    /\ aiOk = [r \in Requests |-> FALSE]
    /\ aiData = [r \in Requests |-> EmptyObject]
    /\ path = [r \in Requests |-> ""]
    /\ response = [r \in Requests |-> undefined]
    /\ writes = [r \in Requests |-> <<>>]
    /\ calls = [r \in Requests |-> [signal |-> 0, ai |-> 0]]
    /\ results = [r \in Requests |-> <<>>]
    /\ prompt = [r \in Requests |-> {}]
    /\ lastServed = [k \in AllQueries |-> undefined]

(***************************************************************************)
(* GET /api/trending/search                                                *)
(*                                                                         *)
(* The handler runs on one thread: the code between two awaits is one      *)
(* step.  Its awaits are fetchRealTrends and generateContent, so a         *)
(* resolution takes at most three steps: the cache check (which issues     *)
(* fetchRealTrends on a miss), the return of fetchRealTrends (which issues *)
(* generateContent), and the return of generateContent (merge or fallback, *)
(* persist and respond).  Each database call may throw.                    *)
(*                                                                         *)
(* A step that responds (or crashes) leaves the request in pc "served"     *)
(* ("crashed") with what it did in existing, aiOk, aiData, path, response, *)
(* writes and calls; the handler's return is the next step of the system   *)
(* (Return), which clears them and frees the slot for the next request.    *)
(***************************************************************************)
stampOf(resp) ==
    IF "last_updated" \in DOMAIN resp THEN <<resp.last_updated>> ELSE <<>>

served(key, resp, persisted) ==
    [lastServed EXCEPT ![key] = [source |-> resp.source, timestamp |-> stampOf(resp),
                                 at |-> now, persisted |-> persisted,
                                 related_keywords |-> resp.related_keywords,
                                 historical_data |-> resp.historical_data]]

\* no handler stands between its response and its return
Quiet == \A r \in Requests : pc[r] \notin {"served", "crashed"}

\* CacheHit that touches the entry it serves: last_updated becomes the time of the hit
CacheHit_Touch(r, QS) ==
    /\ Quiet
    /\ pc[r] = "new"
    /\ \E key \in QS :
         LET row == SelectFresh(trending_keywords, key, now)
         IN  /\ row # undefined
             /\ q' = [q EXCEPT ![r] = key]
             /\ existing' = [existing EXCEPT ![r] = row]
             /\ response' = [response EXCEPT ![r] = hitResponse(row)]
             /\ trending_keywords' =
                   InsertOrReplace(trending_keywords, [row EXCEPT !.last_updated = now])
    /\ pc' = [pc EXCEPT ![r] = "served"]
    /\ path' = [path EXCEPT ![r] = "hit"]
    /\ UNCHANGED <<now, realData, aiOk, aiData, writes, calls, lastServed>>
    /\ UNCHANGED <<results, prompt>>

\* the cache check finds a fresh row: respond with it
CacheHit(r, QS) ==
    /\ Quiet
    /\ pc[r] = "new"
    /\ \E key \in QS :
         LET row == SelectFresh(trending_keywords, key, now)
         IN  /\ row # undefined
             /\ q' = [q EXCEPT ![r] = key]
             /\ existing' = [existing EXCEPT ![r] = row]
             /\ response' = [response EXCEPT ![r] = hitResponse(row)]
    /\ pc' = [pc EXCEPT ![r] = "served"]
    /\ path' = [path EXCEPT ![r] = "hit"]
    /\ UNCHANGED <<now, trending_keywords, realData, aiOk, aiData, writes, calls,
                   lastServed>>
    /\ UNCHANGED <<results, prompt>>

\* the cache check finds no fresh row: call fetchRealTrends
CacheMiss(r, QS) ==
    /\ Quiet
    /\ pc[r] = "new"
    /\ \E key \in QS :
         /\ SelectFresh(trending_keywords, key, now) = undefined
         /\ q' = [q EXCEPT ![r] = key]
    /\ pc' = [pc EXCEPT ![r] = "signal"]
    /\ calls' = [calls EXCEPT ![r].signal = @ + 1]
    /\ UNCHANGED <<now, trending_keywords, existing, realData, aiOk, aiData, path,
                   response, writes, lastServed>>
    /\ UNCHANGED <<results, prompt>>

\* the SELECT of the cache check throws: it stands outside every try block, so the
\* async handler rejects and no response is sent
CacheCheckThrows(r, QS) ==
    /\ Quiet
    /\ pc[r] = "new"
    /\ \E key \in QS : q' = [q EXCEPT ![r] = key]
    /\ pc' = [pc EXCEPT ![r] = "crashed"]
    /\ UNCHANGED <<now, trending_keywords, existing, realData, aiOk, aiData, path,
                   response, writes, calls, lastServed>>
    /\ UNCHANGED <<results, prompt>>

\* const prompt = realData ? `... { "category", "pinterest_volume",
\* "pinterest_related" }` : `... { "momentum_score", "search_volume", "category",
\* "related", "history" }`: the keys of the JSON object the prompt asks for
SteeredKeys == {"category", "pinterest_volume", "pinterest_related"}
UnsteeredKeys == {"momentum_score", "search_volume", "category", "related", "history"}
\* promptKeys that always asks for the full shape
promptKeys_Unsteered(rd) == UnsteeredKeys
promptKeys(rd) == IF rd # null THEN SteeredKeys ELSE UnsteeredKeys

\* fetchRealTrends returns (null or data); the handler builds the prompt and calls
\* generateContent
SignalReturns(r, IOT, RQ) ==
    /\ Quiet
    /\ pc[r] = "signal"
    /\ \E iot \in IOT, rq \in RQ :
         /\ realData' = [realData EXCEPT ![r] = fetchRealTrends(iot, rq)]
         /\ results' = [results EXCEPT ![r] = <<iot, rq>>]
         /\ prompt' = [prompt EXCEPT ![r] = promptKeys(fetchRealTrends(iot, rq))]
    /\ pc' = [pc EXCEPT ![r] = "enrich"]
    /\ calls' = [calls EXCEPT ![r].ai = @ + 1]
    /\ UNCHANGED <<now, trending_keywords, q, existing, aiOk, aiData, path, response,
                   writes, lastServed>>

\* generateContent answers a usable object; the try block runs to its end:
\* merge, INSERT OR REPLACE, SELECT, res.json
MergeAndServe(r, AI) ==
    /\ Quiet
    /\ pc[r] = "enrich"
    /\ \E g \in AI :
         /\ ~aiThrows(g)
         /\ LET data == JSONparse(aiText(g))
                fd == finalData(realData[r], data)
                row == mergedRow(q[r], realData[r], fd, now)
                table == InsertOrReplace(trending_keywords, row)
                result == SelectRow(table, q[r])
                resp == mergeResponse(result, fd)
            IN  /\ aiData' = [aiData EXCEPT ![r] = data]
                /\ trending_keywords' = table
                /\ writes' = [writes EXCEPT ![r] = Append(@, row)]
                /\ response' = [response EXCEPT ![r] = resp]
                /\ lastServed' = served(q[r], resp, TRUE)
    /\ aiOk' = [aiOk EXCEPT ![r] = TRUE]
    /\ pc' = [pc EXCEPT ![r] = "served"]
    /\ path' = [path EXCEPT ![r] = "merge"]
    /\ results' = [results EXCEPT ![r] = <<>>]
    /\ UNCHANGED <<now, q, existing, realData, calls, prompt>>

\* the catch block, entered with the table as `table` and the rows written so far
\* as `written`: build fallbackData, try to store it, respond with it
Catch(r, table, written, RV, FAILS) ==
    \E rnd \in RV, dbError \in FAILS :
        LET fb == fallbackData(q[r], rnd, now)
            row == fallbackRow(fb, now)
        IN  /\ trending_keywords' =
                  IF dbError THEN table ELSE InsertOrReplace(table, row)
            /\ writes' = [writes EXCEPT ![r] = IF dbError THEN written
                                               ELSE Append(written, row)]
            /\ response' = [response EXCEPT ![r] = fb]
            /\ lastServed' = served(q[r], fb, ~dbError)
            /\ pc' = [pc EXCEPT ![r] = "served"]
            /\ path' = [path EXCEPT ![r] = "fallback"]
            /\ results' = [results EXCEPT ![r] = <<>>]

\* generateContent rejects, or its text does not parse, or aiData is null
FallbackOnAiFailure(r, AI, RV, FAILS) ==
    /\ Quiet
    /\ pc[r] = "enrich"
    /\ \E g \in AI : aiThrows(g)
    /\ Catch(r, trending_keywords, writes[r], RV, FAILS)
    /\ UNCHANGED <<now, q, existing, realData, aiOk, aiData, calls, prompt>>

\* generateContent answers a usable object, but the INSERT OR REPLACE of the merge
\* path throws
FallbackOnWriteFailure(r, AI, RV, FAILS) ==
    /\ Quiet
    /\ pc[r] = "enrich"
    /\ \E g \in AI :
         /\ ~aiThrows(g)
         /\ aiData' = [aiData EXCEPT ![r] = JSONparse(aiText(g))]
    /\ aiOk' = [aiOk EXCEPT ![r] = TRUE]
    /\ Catch(r, trending_keywords, writes[r], RV, FAILS)
    /\ UNCHANGED <<now, q, existing, realData, calls, prompt>>

\* generateContent answers a usable object and the merged row is written, but the
\* SELECT that reads it back throws
FallbackOnReadFailure(r, AI, RV, FAILS) ==
    /\ Quiet
    /\ pc[r] = "enrich"
    /\ \E g \in AI :
         /\ ~aiThrows(g)
         /\ LET data == JSONparse(aiText(g))
                row == mergedRow(q[r], realData[r], finalData(realData[r], data), now)
            IN  /\ aiData' = [aiData EXCEPT ![r] = data]
                /\ Catch(r, InsertOrReplace(trending_keywords, row),
                         Append(writes[r], row), RV, FAILS)
    /\ aiOk' = [aiOk EXCEPT ![r] = TRUE]
    /\ UNCHANGED <<now, q, existing, realData, calls, prompt>>

\* the handler returns
Return(r) ==
    /\ pc[r] \in {"served", "crashed"}
    /\ pc' = [pc EXCEPT ![r] = "new"]
    /\ q' = [q EXCEPT ![r] = ""]
    /\ existing' = [existing EXCEPT ![r] = undefined]
    /\ realData' = [realData EXCEPT ![r] = null]
    /\ aiOk' = [aiOk EXCEPT ![r] = FALSE]
    /\ aiData' = [aiData EXCEPT ![r] = EmptyObject]
    /\ path' = [path EXCEPT ![r] = ""]
    /\ response' = [response EXCEPT ![r] = undefined]
    /\ writes' = [writes EXCEPT ![r] = <<>>]
    /\ calls' = [calls EXCEPT ![r] = [signal |-> 0, ai |-> 0]]
    /\ results' = [results EXCEPT ![r] = <<>>]
    /\ prompt' = [prompt EXCEPT ![r] = {}]
    /\ UNCHANGED <<now, trending_keywords, lastServed>>

(***************************************************************************)
(* POST /api/admin/update-trends, and the clock                            *)
(***************************************************************************)
AdminUpdateTrends ==
    /\ Quiet
    /\ trending_keywords' = InsertAllOrReplace(trending_keywords, mockTrends, now)
    /\ lastServed' = [k \in AllQueries |->
                        IF \E t \in mockTrends : t.keyword = k THEN undefined
                        ELSE lastServed[k]]
    /\ UNCHANGED <<now, pc, q, existing, realData, aiOk, aiData, path, response,
                   writes, calls>>
    /\ UNCHANGED <<results, prompt>>

Tick ==
    /\ Quiet
    /\ now < MaxTime
    /\ now' = now + 1
    /\ UNCHANGED <<trending_keywords, pc, q, existing, realData, aiOk, aiData, path,
                   response, writes, calls, lastServed>>
    /\ UNCHANGED <<results, prompt>>

(***************************************************************************)
(* Specifications                                                          *)
(***************************************************************************)
\* the answers of the providers in Spec: one of each kind
SomeInterest ==
    {Rejected, JSONstringify([default |-> [timelineData |-> Series(2, 10, 40)]])}
SomeRelated ==
    {JSONstringify([default |-> [rankedList |-> <<[rankedKeyword |-> Ranked(2)]>>]])}
SomeAi ==
    {Rejected,
     [text |-> JSONstringify([category |-> "Home Decor", pinterest_volume |-> 7000,
                              pinterest_related |-> <<"t1", "t9">>])],
     [text |-> JSONstringify([momentum_score |-> 64, search_volume |-> 9000,
                              category |-> "Home Decor", related |-> AiRelated(2),
                              history |-> Hist(2)])]}

\* one draw of Math.random for all seven points
OneVector == {[i \in 1..FALLBACK_DAYS |-> 0]}

\* handlers in flight together, the clock and the admin endpoint, on a database
\* whose calls do not throw
Next ==
    \/ Tick
    \/ AdminUpdateTrends
    \/ \E r \in Requests :
         \/ CacheHit(r, Queries)
         \/ CacheMiss(r, Queries)
         \/ SignalReturns(r, SomeInterest, SomeRelated)
         \/ MergeAndServe(r, SomeAi)
         \/ FallbackOnAiFailure(r, SomeAi, OneVector, {FALSE})
         \/ Return(r)

Spec == Init /\ [][Next]_vars

\* one handler at a time, the clock and the admin endpoint, on a database whose
\* calls may throw
NextFaults ==
    \/ Tick
    \/ AdminUpdateTrends
    \/ CacheHit(1, Queries)
    \/ CacheMiss(1, Queries)
    \/ CacheCheckThrows(1, Queries)
    \/ SignalReturns(1, SomeInterest, SomeRelated)
    \/ MergeAndServe(1, SomeAi)
    \/ FallbackOnAiFailure(1, SomeAi, ConstantVectors, BOOLEAN)
    \/ FallbackOnWriteFailure(1, SomeAi, ConstantVectors, BOOLEAN)
    \/ FallbackOnReadFailure(1, SomeAi, ConstantVectors, BOOLEAN)
    \/ Return(1)

SpecFaults == Init /\ [][NextFaults]_vars

\* one resolution of one query on a working database, over every answer of the
\* providers
NextData ==
    \/ CacheMiss(1, OneQuery)
    \/ SignalReturns(1, InterestOverTimeResults, RelatedQueriesResults)
    \/ MergeAndServe(1, GenerateContentResults)
    \/ FallbackOnAiFailure(1, GenerateContentResults, RandomVectors, {FALSE})

SpecData == Init /\ [][NextData]_vars

\* the promise the handler awaits (fetchRealTrends, generateContent) never
\* settles: the provider accepted the call and does not answer.  The handler sets
\* no timer and passes no abort signal, so nothing ends the wait.
NeverSettles(r) ==
    /\ Quiet
    /\ pc[r] \in {"signal", "enrich"}
    /\ pc' = [pc EXCEPT ![r] = "pending"]
    /\ UNCHANGED <<now, trending_keywords, q, existing, realData, aiOk, aiData, path,
                   response, writes, calls, lastServed>>
    /\ UNCHANGED <<results, prompt>>

\* Spec with providers that may never answer
NextLive ==
    \/ Tick
    \/ AdminUpdateTrends
    \/ \E r \in Requests :
         \/ CacheHit(r, Queries)
         \/ CacheMiss(r, Queries)
         \/ SignalReturns(r, SomeInterest, SomeRelated)
         \/ MergeAndServe(r, SomeAi)
         \/ FallbackOnAiFailure(r, SomeAi, OneVector, {FALSE})
         \/ NeverSettles(r)
         \/ Return(r)

\* what the event loop guarantees: once a promise has settled its continuation runs,
\* and a handler that has responded returns.  Requests, the admin call and the
\* clock come from outside.
Fairness ==
    \A r \in Requests :
        /\ SF_vars(SignalReturns(r, SomeInterest, SomeRelated))
        /\ SF_vars(FallbackOnAiFailure(r, SomeAi, OneVector, {FALSE})
                   \/ MergeAndServe(r, SomeAi))
        /\ WF_vars(Return(r))

SpecLive == Init /\ [][NextLive]_vars /\ Fairness

\* one handler at a time and the clock, on a database whose calls do not throw,
\* over the spellings of one keyword
NextKeys ==
    \/ Tick
    \/ CacheHit(1, KeyQueries)
    \/ CacheMiss(1, KeyQueries)
    \/ SignalReturns(1, SomeInterest, SomeRelated)
    \/ MergeAndServe(1, SomeAi)
    \/ FallbackOnAiFailure(1, SomeAi, OneVector, {FALSE})
    \/ Return(1)

SpecKeys == Init /\ [][NextKeys]_vars

\* one call of fetchRealTrends, over every answer of Google Trends
NextSignal ==
    \/ CacheMiss(1, OneQuery)
    \/ SignalReturns(1, InterestOverTimeResults, RelatedQueriesResults)

SpecSignal == Init /\ [][NextSignal]_vars

(***************************************************************************)
(* Vocabulary of the properties                                            *)
(***************************************************************************)
Served(r) == pc[r] = "served"
\* a resolution that missed the cache and has responded
Resolved(r) == Served(r) /\ path[r] \in {"merge", "fallback"}
SignalOk(r) == realData[r] # null
\* the rows of the table stored under key
RowsOf(key) == {row \in trending_keywords : row.keyword = key}
\* the last row request r wrote
LastWrite(r) == writes[r][Len(writes[r])]
\* the provenance tags of the specification, for the tags the code writes
SpecTag(source) ==
    CASE source = "Google Trends + AI" -> "Signal+Enrichment"
      [] source = "Trends AI" -> "Enrichment"
      [] OTHER -> source
\* the text columns of a row, decoded (NULL reads as the empty sequence)
Decoded(column) == IF column = null THEN <<>> ELSE column.json
TrendFields ==
    {"keyword", "category", "momentum_score", "search_volume", "related_keywords",
     "historical_data", "source"}

(***************************************************************************)
(* C1.  For every resolution that misses the cache, the Fallback tier runs *)
(* (a record with source "Fallback" is persisted and served) if and only   *)
(* if both the Signal provider and the Enrichment provider were            *)
(* unavailable in it; whenever at least one of the two succeeded, the      *)
(* Merge result is persisted and served instead.                           *)
(* The code enters the Fallback tier whenever Enrichment fails, also when  *)
(* Signal succeeded: C1_FallbackIffBothUnavailable is violated.            *)
(***************************************************************************)
C1_FallbackIffBothUnavailable ==
    \A r \in Requests :
        Resolved(r) =>
            /\ (path[r] = "fallback") <=> (~SignalOk(r) /\ ~aiOk[r])
            /\ path[r] = "fallback" =>
                  /\ response[r].source = "Fallback"
                  /\ LastWrite(r).source = "Fallback"
            /\ path[r] = "merge" =>
                  /\ response[r].source # "Fallback"
                  /\ LastWrite(r).source = response[r].source

(***************************************************************************)
(* C2.  Every resolve call with a non-empty query ends by returning a      *)
(* complete trend record (keyword, category, momentum_score,               *)
(* search_volume, related_keywords, historical_data, source) and never a   *)
(* hard failure, for every combination of Signal failure, Enrichment       *)
(* failure, malformed provider response and store read/write failure.      *)
(* The SELECT of the cache check stands outside every try block: when it   *)
(* throws, the handler ends without a record.  C2_AlwaysARecord is         *)
(* violated.                                                               *)
(***************************************************************************)
C2_AlwaysARecord ==
    \A r \in Requests :
        /\ pc[r] # "crashed"
        /\ Served(r) => TrendFields \subseteq DOMAIN response[r]

(***************************************************************************)
(* C3.  If the store holds a fresh entry (less than 10 minutes old) for    *)
(* the queried keyword when resolve starts, the resolution returns that    *)
(* stored record with every field unchanged (the two text columns          *)
(* decoded) and makes no call to the Signal provider and no call to the    *)
(* Enrichment provider.  Stated of the step in which a handler starts.     *)
(***************************************************************************)
\* the entries under key that are less than 10 minutes old now
FreshEntries(key) ==
    {row \in RowsOf(key) : (now - row.last_updated) * MinutesPerTick < TTL_MINUTES}

SameRecord(resp, row) ==
    /\ DOMAIN resp = DOMAIN row
    /\ \A f \in DOMAIN row \ {"related_keywords", "historical_data"} : resp[f] = row[f]
    /\ resp.related_keywords = Decoded(row.related_keywords)
    /\ resp.historical_data = Decoded(row.historical_data)

C3_FreshEntryServedUnchanged ==
    [][\A r \in Requests :
          (pc[r] = "new" /\ pc'[r] # "new" /\ FreshEntries(q'[r]) # {}) =>
              /\ pc'[r] = "served"
              /\ path'[r] = "hit"
              /\ \E row \in FreshEntries(q'[r]) : SameRecord(response'[r], row)
              /\ calls'[r] = [signal |-> 0, ai |-> 0]
              /\ realData'[r] = null /\ ~aiOk'[r]]_vars

\* a handler has answered from an entry that a resolution wrote one tick earlier
C3_Witness ==
    \E r \in Requests :
        /\ Served(r) /\ path[r] = "hit"
        /\ response[r].source = "Google Trends + AI"
        /\ response[r].last_updated < now
        /\ Len(response[r].related_keywords) > 0
        /\ calls[r] = [signal |-> 0, ai |-> 0]

(***************************************************************************)
(* C4.  For every keyword k, if resolve(k) is called twice within the      *)
(* 10-minute TTL window with no other change to the store in between, the  *)
(* second call is a cache hit: it makes no provider calls and returns a    *)
(* record whose source and resolution timestamp are identical to those of  *)
(* the record returned by the first call, whichever tier (merge or         *)
(* Fallback) served the first call.  Stated of the step in which the       *)
(* second handler starts; lastServed[k] is the first call.                 *)
(* The Fallback response is the literal fallbackData, which carries no     *)
(* last_updated: C4_SecondCallIdentical is violated.                       *)
(***************************************************************************)
C4_SecondCallIdentical ==
    [][\A r \in Requests :
          (/\ pc[r] = "new" /\ pc'[r] # "new"
           /\ lastServed[q'[r]] # undefined
           /\ lastServed[q'[r]].persisted
           /\ (now - lastServed[q'[r]].at) * MinutesPerTick < TTL_MINUTES) =>
              /\ pc'[r] = "served"
              /\ path'[r] = "hit"
              /\ calls'[r] = [signal |-> 0, ai |-> 0]
              /\ response'[r].source = lastServed[q'[r]].source
              /\ stampOf(response'[r]) = lastServed[q'[r]].timestamp]_vars

(***************************************************************************)
(* C5.  In every cache-miss resolution in which the Signal provider        *)
(* succeeded, the momentum_score of the served and persisted record equals *)
(* the Signal provider's momentum_score, whether the Enrichment provider   *)
(* succeeded or failed.                                                    *)
(* With Signal present and Enrichment failed the code serves the Fallback  *)
(* record (C1), whose momentum_score is 72: C5_MomentumFromSignal is       *)
(* violated.                                                               *)
(***************************************************************************)
C5_MomentumFromSignal ==
    \A r \in Requests :
        (Resolved(r) /\ SignalOk(r)) =>
            /\ response[r].momentum_score = realData[r].momentum_score
            /\ LastWrite(r).momentum_score = realData[r].momentum_score

(***************************************************************************)
(* C6.  The source tag of a record produced by a cache-miss resolution is  *)
(* determined by which providers succeeded: "Signal+Enrichment" if both,   *)
(* "Enrichment" if only Enrichment, "Signal" if only Signal (with category *)
(* "General"), "Fallback" if neither.                                      *)
(* The code has no Signal-only record: with only Signal present it serves  *)
(* the Fallback record (C1).  C6_SourceTag is violated.                    *)
(***************************************************************************)
ExpectedTag(signal, enrichment) ==
    CASE signal /\ enrichment -> "Signal+Enrichment"
      [] ~signal /\ enrichment -> "Enrichment"
      [] signal /\ ~enrichment -> "Signal"
      [] OTHER -> "Fallback"

C6_SourceTag ==
    \A r \in Requests :
        Resolved(r) =>
            /\ SpecTag(response[r].source) = ExpectedTag(SignalOk(r), aiOk[r])
            /\ SpecTag(LastWrite(r).source) = ExpectedTag(SignalOk(r), aiOk[r])
            /\ (SignalOk(r) /\ ~aiOk[r]) => response[r].category = "General"

(***************************************************************************)
(* C7.  In the Merge step, search_volume is the average of the Signal      *)
(* volume and the Enrichment volume when both tiers supply a volume        *)
(* estimate, is exactly the one supplied estimate when only one tier       *)
(* supplies one (including the case where Signal succeeded and the steered *)
(* Enrichment result carries no pinterest_volume), and is 1000 when        *)
(* neither does.  (An Enrichment estimate of 0 is left open here.)         *)
(* With Signal present the code computes                                   *)
(* (realData.search_volume + (aiData.pinterest_volume || 0)) / 2, so a     *)
(* missing pinterest_volume halves the Signal volume: C7_SearchVolume is   *)
(* violated.                                                               *)
(***************************************************************************)
C7_SearchVolume ==
    \A r \in Requests :
        (Served(r) /\ path[r] = "merge") =>
            LET S == realData[r]
                E == aiData[r]
                volume == response[r].search_volume
            IN  IF SignalOk(r) /\ "pinterest_volume" \in DOMAIN E
                THEN 2 * volume = S.search_volume + E.pinterest_volume
                ELSE IF SignalOk(r) THEN volume = S.search_volume
                ELSE IF "search_volume" \notin DOMAIN E THEN volume = DEFAULT_VOLUME
                ELSE E.search_volume # 0 => volume = E.search_volume

(***************************************************************************)
(* C8.  In the Merge step with both Signal and Enrichment present,         *)
(* related_keywords is the sequence of Signal related terms followed by    *)
(* the Enrichment pinterest_related terms, with every later duplicate of   *)
(* an earlier string removed (first-seen order kept), cut to its first 8   *)
(* entries; with only one tier present it is that tier's list; with no     *)
(* list it is empty.  (The Merge step runs only when Enrichment is         *)
(* present.)                                                               *)
(***************************************************************************)
\* the place where x first stands in s
FirstIndex(s, x) == CHOOSE i \in 1..Len(s) : s[i] = x /\ \A j \in 1..(i - 1) : s[j] # x

\* out lists, in the order of their first places in s, the strings of s that have
\* fewer than cap distinct strings before them, each once
IsFirstSeenPrefix(out, s, cap) ==
    /\ Elems(out) \subseteq Elems(s)
    /\ \A i, j \in 1..Len(out) : i < j => FirstIndex(s, out[i]) < FirstIndex(s, out[j])
    /\ \A x \in Elems(s) :
          (x \in Elems(out)) <=>
          (Cardinality({y \in Elems(s) : FirstIndex(s, y) < FirstIndex(s, x)}) < cap)

C9_RelatedBounded ==
    \A r \in Requests :
        Served(r) =>
            LET related == response[r].related_keywords
            IN  /\ Len(related) <= 8
                /\ \A i, j \in 1..Len(related) : i # j => related[i] # related[j]

(***************************************************************************)
(* C10.  Every record returned by any resolution has at most 7             *)
(* historical_data points, in non-decreasing chronological order,          *)
(* whichever tier supplied the history.                                    *)
(* The code takes the whole series of the provider that supplies it:       *)
(* C10_HistoryBounded is violated.                                         *)
(***************************************************************************)
C10_HistoryBounded ==
    \A r \in Requests :
        Served(r) =>
            LET history == response[r].historical_data
            IN  /\ Len(history) <= 7
                /\ \A i, j \in 1..Len(history) :
                      i < j => history[i].date <= history[j].date

(***************************************************************************)
(* C11.  When both provider adapters fail, resolve(k) returns a record     *)
(* with momentum_score = 72, search_volume = 12500, category = "General",  *)
(* source = "Fallback", exactly the 5 related keywords "<k> ideas",        *)
(* "<k> aesthetic", "best <k>", "<k> diy", "<k> trends", and exactly 7     *)
(* history points, one per consecutive day ending today, each with an      *)
(* integer value in [40,100]; producing this record cannot itself fail: a  *)
(* handler that has called a provider never ends without a response, also  *)
(* when the store write of the Fallback record throws.                     *)
(***************************************************************************)
BothFailed(r) == Resolved(r) /\ ~SignalOk(r) /\ ~aiOk[r]

C11_FallbackRecord ==
    \A r \in Requests :
        /\ BothFailed(r) =>
              LET rec == response[r]
                  k == q[r]
              IN  /\ rec.momentum_score = 72
                  /\ rec.search_volume = 12500
                  /\ rec.category = "General"
                  /\ rec.source = "Fallback"
                  /\ rec.related_keywords =
                        <<k \o " ideas", k \o " aesthetic", "best " \o k,
                          k \o " diy", k \o " trends">>
                  /\ Len(rec.historical_data) = 7
                  /\ \A i \in 1..7 :
                        /\ rec.historical_data[i].date = Today(now) - (7 - i)
                        /\ rec.historical_data[i].value \in 40..100
        /\ pc[r] = "crashed" => calls[r] = [signal |-> 0, ai |-> 0]

\* both providers failed and the write of the Fallback row threw: the record is
\* served all the same
C11_Witness ==
    \E r \in Requests :
        /\ BothFailed(r)
        /\ writes[r] = <<>>
        /\ response[r].historical_data[7].value = RANDOM_BASE + RANDOM_SPAN - 1

(***************************************************************************)
(* C12.  After any sequence of resolutions the store holds at most one     *)
(* entry per keyword, and a resolve(k) that finds no fresh entry performs  *)
(* exactly one store write, which replaces the prior entry for k wholesale *)
(* (source, category, momentum_score, search_volume, related_keywords,     *)
(* historical_data and timestamp are rewritten together): when the         *)
(* resolution responds, the entry under k is the row it wrote, all fields. *)
(* Stated of a store whose calls succeed.                                  *)
(***************************************************************************)
RowFields == (TrendFields \cup {"last_updated"})

C12_OneEntryOneWrite ==
    /\ \A row, other \in trending_keywords : row.keyword = other.keyword => row = other
    /\ \A r \in Requests :
          Resolved(r) =>
              /\ Len(writes[r]) = 1
              /\ DOMAIN writes[r][1] = RowFields
              /\ writes[r][1].keyword = q[r]
              /\ writes[r][1].last_updated = now
              /\ RowsOf(q[r]) = {writes[r][1]}

\* a resolution has replaced the seeded entry of its keyword, which had gone stale
C12_Witness ==
    \E r \in Requests :
        /\ Resolved(r)
        /\ \E t \in mockTrends : t.keyword = q[r]
        /\ RowsOf(q[r]) = {writes[r][1]}
        /\ writes[r][1].source = "Google Trends + AI"

(***************************************************************************)
(* C13.  If the store write fails during a resolution, the caller still    *)
(* receives the record that the resolution computed (the merged record     *)
(* when a provider succeeded, the Fallback record when none did); a        *)
(* persistence failure never changes which record is served and never      *)
(* fails the request.  (The record due when only Signal succeeded is left  *)
(* open here: see C1.)                                                     *)
(* The INSERT OR REPLACE of the merge path stands inside the try block     *)
(* whose catch is the Fallback tier: when it throws, the Fallback record   *)
(* is served in place of the merged one.  C13_WriteFailureServesComputed   *)
(* is violated.                                                            *)
(***************************************************************************)
\* the INSERTs request r has run: one on the merge path and after a failure of
\* Gemini, two when the catch block was entered after the merge
InsertsRun(r) == IF path[r] = "fallback" /\ aiOk[r] THEN 2 ELSE 1
\* one of them threw
WriteFailed(r) == Resolved(r) /\ Len(writes[r]) < InsertsRun(r)

\* resp carries the merge of the Signal data rd with the Enrichment object ai
IsMergedRecord(resp, key, rd, ai) ==
    LET fd == finalData(rd, ai)
    IN  /\ resp.keyword = key
        /\ resp.source = IF rd # null THEN "Google Trends + AI" ELSE "Trends AI"
        /\ resp.category = fd.category
        /\ resp.momentum_score = fd.momentum_score
        /\ resp.search_volume = fd.search_volume
        /\ resp.related_keywords = fd.related
        /\ resp.historical_data = fd.history

C13_WriteFailureServesComputed ==
    \A r \in Requests :
        /\ pc[r] = "crashed" => writes[r] = <<>> /\ calls[r] = [signal |-> 0, ai |-> 0]
        /\ WriteFailed(r) =>
              IF aiOk[r] THEN IsMergedRecord(response[r], q[r], realData[r], aiData[r])
              ELSE ~SignalOk(r) => response[r].source = "Fallback"

(***************************************************************************)
(* C14.  When several resolutions of the same keyword overlap during a     *)
(* cache miss, none waits for or reuses another's result: each calls the   *)
(* providers itself and each writes the store, and in every interleaving   *)
(* the store afterwards holds exactly one complete entry for the keyword,  *)
(* equal to the record written by whichever resolution wrote last (no      *)
(* entry mixes fields from two writers).  Stated of the step in which a    *)
(* resolution that missed the cache responds, whatever the other handlers  *)
(* have written since its cache check: it has called each provider once,   *)
(* it writes one row, and after the step the entry of its keyword is that  *)
(* row, all of whose fields are those of its own response.                 *)
(***************************************************************************)
\* row is the stored form of the record resp
RowOfResponse(row, resp) ==
    /\ DOMAIN row = RowFields
    /\ \A f \in TrendFields \ {"related_keywords", "historical_data"} : row[f] = resp[f]
    /\ Decoded(row.related_keywords) = resp.related_keywords
    /\ Decoded(row.historical_data) = resp.historical_data

C14_LastWriterWins ==
    [][\A r \in Requests :
          (pc[r] = "enrich" /\ pc'[r] # "enrich") =>
              /\ pc'[r] = "served"
              /\ path'[r] \in {"merge", "fallback"}
              /\ calls'[r] = [signal |-> 1, ai |-> 1]
              /\ Len(writes'[r]) = 1
              /\ RowOfResponse(writes'[r][1], response'[r])
              /\ {row \in trending_keywords' : row.keyword = q[r]} = {writes'[r][1]}
              /\ {row \in trending_keywords' : row.keyword # q[r]}
                    = {row \in trending_keywords : row.keyword # q[r]}]_vars

\* two resolutions of one keyword overlap: one is about to respond, and the other,
\* which missed the cache as well, has written a different record since
C14_Witness ==
    \E r, other \in Requests :
        /\ r # other
        /\ pc[r] = "enrich" /\ q[r] = "boho" /\ ~SignalOk(r)
        /\ Resolved(other) /\ q[other] = "boho"
        /\ RowsOf("boho") = {writes[other][1]}
        /\ writes[other][1].source = "Google Trends + AI"

(***************************************************************************)
(* C15.  A provider call that never returns is turned into "unavailable"   *)
(* by a per-call timeout, so every resolution eventually reaches Served    *)
(* even when the Signal provider or the Enrichment provider never          *)
(* responds.                                                               *)
(* The handler awaits both providers without a timeout: a call that never  *)
(* returns leaves the resolution pending for ever.  C15_EventuallyServed   *)
(* is violated.                                                            *)
(***************************************************************************)
C15_EventuallyServed ==
    \A r \in Requests : (pc[r] = "signal") ~> Served(r)

(***************************************************************************)
(* C16.  Within one resolution each provider is called at most once (no    *)
(* automatic retry of a failed provider), and a resolution re-invoked for  *)
(* the same keyword within the TTL after a resolution that persisted its   *)
(* result (merged or Fallback) hits the cache and makes no provider calls. *)
(* Stated of every step: the call counts of every handler stay at most 1,  *)
(* and a handler that starts on a keyword whose last resolution persisted  *)
(* its result less than 10 minutes ago answers from the store.             *)
(***************************************************************************)
C16_NoRetryAndCacheAfterPersist ==
    [][\A r \in Requests :
          /\ calls'[r].signal <= 1
          /\ calls'[r].ai <= 1
          /\ (/\ pc[r] = "new" /\ pc'[r] # "new"
              /\ lastServed[q'[r]] # undefined
              /\ lastServed[q'[r]].persisted
              /\ (now - lastServed[q'[r]].at) * MinutesPerTick < TTL_MINUTES) =>
                 /\ pc'[r] = "served"
                 /\ path'[r] = "hit"
                 /\ calls'[r] = [signal |-> 0, ai |-> 0]]_vars

\* a handler has answered from the store, one tick after a resolution in which
\* both providers failed had persisted its Fallback record
C16_Witness ==
    \E r \in Requests :
        /\ Served(r) /\ path[r] = "hit"
        /\ lastServed[q[r]] # undefined
        /\ lastServed[q[r]].source = "Fallback"
        /\ lastServed[q[r]].at < now
        /\ response[r].source = "Fallback"
        /\ calls[r] = [signal |-> 0, ai |-> 0]

(***************************************************************************)
(* C17.  The store lookup and write key is the normalized keyword (query   *)
(* trimmed and case-folded): two queries that differ only in letter case   *)
(* or in leading/trailing whitespace address the same store entry, so the  *)
(* second of them within the TTL is a cache hit on the first one's record. *)
(* The handler binds req.query.q as it came to the SELECT and to the       *)
(* INSERT, and the keyword column compares byte by byte: "Boho" misses the *)
(* entry of "boho" and gets an entry of its own.  C17_NormalizedKey is     *)
(* violated.                                                               *)
(***************************************************************************)
\* the query trimmed and case-folded, for the spellings of the model
Normalized(s) == IF s \in KeyQueries THEN "boho" ELSE s

C17_NormalizedKey ==
    [][\A r \in Requests :
          /\ \A row, other \in trending_keywords' :
                Normalized(row.keyword) = Normalized(other.keyword) => row = other
          /\ (/\ pc[r] = "new" /\ pc'[r] # "new"
              /\ \E row \in trending_keywords :
                    /\ Normalized(row.keyword) = Normalized(q'[r])
                    /\ (now - row.last_updated) * MinutesPerTick < TTL_MINUTES) =>
                 /\ pc'[r] = "served"
                 /\ path'[r] = "hit"
                 /\ Normalized(response'[r].keyword) = Normalized(q'[r])]_vars

(***************************************************************************)
(* C18.  Every record served or persisted by a resolution has an integer   *)
(* momentum_score in the range [0,100], including records whose momentum   *)
(* comes from an Enrichment result in unsteered mode.                      *)
(* With Signal unavailable the code takes aiData.momentum_score as Gemini  *)
(* gave it, without a clamp: C18_MomentumRange is violated.                *)
(***************************************************************************)
C18_MomentumRange ==
    \A r \in Requests :
        Resolved(r) =>
            /\ response[r].momentum_score \in 0..100
            /\ \A i \in 1..Len(writes[r]) : writes[r][i].momentum_score \in 0..100

(***************************************************************************)
(* C19.  A stored entry is treated as fresh exactly when                   *)
(* now - resolved_at < 10 minutes: an entry younger than 10 minutes is     *)
(* served from cache, and an entry aged 10 minutes or more is never served *)
(* from cache but triggers a new resolution (provider calls and a store    *)
(* overwrite).  Stated of the step in which a handler starts, and of the   *)
(* step in which the resolution it triggered responds.                     *)
(***************************************************************************)
\* minutes since the row was written
AgeMinutes(row) == (now - row.last_updated) * MinutesPerTick

C19_FreshExactlyUnderTTL ==
    [][\A r \in Requests :
          /\ (pc[r] = "new" /\ pc'[r] # "new") =>
                IF \E row \in RowsOf(q'[r]) : AgeMinutes(row) < 10
                THEN /\ pc'[r] = "served" /\ path'[r] = "hit"
                     /\ response'[r].keyword = q'[r]
                     /\ (now - response'[r].last_updated) * MinutesPerTick < 10
                     /\ calls'[r] = [signal |-> 0, ai |-> 0]
                     /\ trending_keywords' = trending_keywords
                ELSE /\ pc'[r] = "signal"
                     /\ calls'[r] = [signal |-> 1, ai |-> 0]
          /\ (pc[r] = "enrich" /\ pc'[r] # "enrich") =>
                /\ calls'[r] = [signal |-> 1, ai |-> 1]
                /\ \E row \in trending_keywords' :
                      /\ row.keyword = q[r]
                      /\ row.last_updated = now
                      /\ row = writes'[r][Len(writes'[r])]]_vars

\* a handler has found the entry of its keyword at the first tick at which it is
\* 10 minutes old or older, and has called the Signal provider
C19_Witness ==
    \E r \in Requests :
        /\ pc[r] = "signal"
        /\ calls[r] = [signal |-> 1, ai |-> 0]
        /\ \E row \in RowsOf(q[r]) :
              /\ AgeMinutes(row) >= 10
              /\ AgeMinutes(row) - MinutesPerTick < 10

(***************************************************************************)
(* C20.  Every entry in the trend store was created by the resolution      *)
(* flow, so in every reachable state each stored entry, and each record a  *)
(* resolution returns (cache hits included), has a source tag from the     *)
(* fixed provenance set {Signal+Enrichment, Enrichment, Signal, Fallback}; *)
(* no other operation creates or rewrites trend entries.                   *)
(* The startup seed and POST /api/admin/update-trends write entries tagged *)
(* "Pinterest", "Google" and "Social": C20_SourceTags is violated.         *)
(***************************************************************************)
ProvenanceTags == {"Signal+Enrichment", "Enrichment", "Signal", "Fallback"}

C20_SourceTags ==
    /\ \A row \in trending_keywords : SpecTag(row.source) \in ProvenanceTags
    /\ \A r \in Requests : Served(r) => SpecTag(response[r].source) \in ProvenanceTags

(***************************************************************************)
(* C20, amended.  Every entry in the trend store was created by the        *)
(* resolution flow, by the startup seed or by the admin trend update, the  *)
(* last two writing only their five fixed keywords with the tags           *)
(* "Pinterest", "Google" or "Social" and without related keywords or       *)
(* history; each stored entry, and each record a resolution returns (cache *)
(* hits included), has a source tag from the provenance set or one of      *)
(* these three tags.                                                       *)
(***************************************************************************)
SeedTags == {t.source : t \in mockTrends}

\* row has the form the seed and the admin update write
IsSeedEntry(row) ==
    /\ \E t \in mockTrends :
          /\ row.keyword = t.keyword /\ row.source = t.source
          /\ row.category = t.category
          /\ row.momentum_score = t.momentum_score
          /\ row.search_volume = t.search_volume
    /\ row.related_keywords = null
    /\ row.historical_data = null

\* row has the form the resolution flow writes
IsResolutionEntry(row) ==
    /\ SpecTag(row.source) \in ProvenanceTags
    /\ row.related_keywords # null
    /\ row.historical_data # null

C20_SourceTagsWithSeed ==
    /\ \A row \in trending_keywords : IsSeedEntry(row) \/ IsResolutionEntry(row)
    /\ \A r \in Requests :
          Served(r) => SpecTag(response[r].source) \in (ProvenanceTags \cup SeedTags)

\* a cache hit has returned an entry that the admin update rewrote
C20_Witness ==
    \E r \in Requests :
        /\ Served(r) /\ path[r] = "hit"
        /\ response[r].source = "Pinterest"
        /\ response[r].last_updated > 0

(***************************************************************************)
(* Vocabulary of the Signal adapter's properties: the two answers of       *)
(* Google Trends that a handler waiting for Gemini has received            *)
(***************************************************************************)
AwaitsGemini(r) == pc[r] = "enrich"
\* a call failed: transport error, or a text that is not JSON
CallFailed(answer) == answer = Rejected \/ ~Parsable(answer)
\* the answer is JSON without the `default` member
Malformed(answer) == ~CallFailed(answer) /\ "default" \notin DOMAIN JSONparse(answer)
WellFormed(answer) == ~CallFailed(answer) /\ ~Malformed(answer)
\* the time series of a well-formed interestOverTime answer
SeriesOf(answer) ==
    LET timelineData == JSONparse(answer).default.timelineData
    IN  [i \in 1..Len(timelineData) |-> timelineData[i].value[1]]
\* the ranked related terms of a well-formed relatedQueries answer
RankedOf(answer) ==
    LET rankedList == JSONparse(answer).default.rankedList
    IN  IF rankedList = <<>> THEN <<>>
        ELSE [i \in 1..Len(rankedList[1].rankedKeyword) |->
                rankedList[1].rankedKeyword[i].query]

(***************************************************************************)
(* C21.  The Signal adapter returns "unavailable" and never throws to the  *)
(* orchestrator for every transport error, every parse error and every     *)
(* empty or malformed time series; in particular a well-formed response    *)
(* whose time series is empty yields "unavailable", not a successful       *)
(* Signal result.                                                          *)
(* fetchRealTrends reads the last two points of an empty series as 0 and   *)
(* returns momentum 50, volume 0 and an empty history:                     *)
(* C21_SignalUnavailable is violated.                                      *)
(***************************************************************************)
C21_SignalUnavailable ==
    \A r \in Requests :
        /\ pc[r] # "crashed"
        /\ AwaitsGemini(r) =>
              LET iot == results[r][1]
                  rq == results[r][2]
              IN  (\/ CallFailed(iot) \/ CallFailed(rq)
                   \/ Malformed(iot)
                   \/ (WellFormed(iot) /\ SeriesOf(iot) = <<>>)) => realData[r] = null

(***************************************************************************)
(* C22.  For every time series the Signal adapter accepts, its             *)
(* momentum_score equals clamp(0, 100, 50 + 2 * (last - secondToLast))     *)
(* where a missing last or second-to-last sample counts as 0, and its      *)
(* search_volume equals round(last * 1000).  The samples of the model are  *)
(* integers.                                                               *)
(***************************************************************************)
Clamp(lo, hi, x) == IF x < lo THEN lo ELSE IF x > hi THEN hi ELSE x
\* the sample that stands k places before the end of series s, 0 when there is none
FromEnd(s, k) == IF Len(s) > k THEN s[Len(s) - k] ELSE 0

C22_SignalMomentumAndVolume ==
    \A r \in Requests :
        (AwaitsGemini(r) /\ SignalOk(r)) =>
            LET series == SeriesOf(results[r][1])
            IN  /\ realData[r].momentum_score =
                      Clamp(0, 100, 50 + 2 * (FromEnd(series, 0) - FromEnd(series, 1)))
                /\ realData[r].search_volume = FromEnd(series, 0) * 1000

\* a one-point series: the missing second-to-last sample counts as 0 and the
\* momentum 50 + 2 * 40 is clamped to 100
C22_Witness ==
    \E r \in Requests :
        /\ AwaitsGemini(r) /\ SignalOk(r)
        /\ SeriesOf(results[r][1]) = <<40>>
        /\ realData[r].momentum_score = 100
        /\ realData[r].search_volume = 40000

(***************************************************************************)
(* C23.  Persist-then-read round trip: the related_keywords and            *)
(* historical_data sequences returned by a cache hit are equal, element    *)
(* for element and in the same order, to the sequences returned by the     *)
(* resolution that wrote that entry; an entry stored without these fields  *)
(* is served with empty sequences.  lastServed[k] holds what the           *)
(* resolution that last wrote the entry of k returned.                     *)
(***************************************************************************)
C23_RoundTrip ==
    \A r \in Requests :
        (Served(r) /\ path[r] = "hit") =>
            LET writer == lastServed[q[r]]
            IN  /\ existing[r].related_keywords = null => response[r].related_keywords = <<>>
                /\ existing[r].historical_data = null => response[r].historical_data = <<>>
                /\ (writer # undefined /\ writer.persisted) =>
                      /\ response[r].related_keywords = writer.related_keywords
                      /\ response[r].historical_data = writer.historical_data

\* a cache hit has returned the three related keywords and the two history points
\* of a merge of Signal and Enrichment data
C23_Witness ==
    \E r \in Requests :
        /\ Served(r) /\ path[r] = "hit"
        /\ lastServed[q[r]] # undefined
        /\ lastServed[q[r]].source = "Google Trends + AI"
        /\ Len(response[r].related_keywords) = 3
        /\ Len(response[r].historical_data) = 2

(***************************************************************************)
(* C24.  When the Signal is unavailable and Enrichment succeeds, the       *)
(* merged momentum_score equals the Enrichment momentum for every value    *)
(* Enrichment supplies, 0 included, and is the default 50 only when        *)
(* Enrichment supplies none; likewise search_volume, with default 1000.    *)
(* aiData.momentum_score || 50 reads a supplied 0 as missing:              *)
(* C24_EnrichmentValuesKept is violated.                                   *)
(***************************************************************************)
Supplied(obj, key, dflt) == IF key \in DOMAIN obj THEN obj[key] ELSE dflt

C24_EnrichmentValuesKept ==
    \A r \in Requests :
        (Resolved(r) /\ path[r] = "merge" /\ ~SignalOk(r)) =>
            /\ response[r].momentum_score = Supplied(aiData[r], "momentum_score", 50)
            /\ response[r].search_volume = Supplied(aiData[r], "search_volume", 1000)

(***************************************************************************)
(* C25.  Entries are never deleted or expired by the store: once a keyword *)
(* has an entry, every later state still has exactly one entry for that    *)
(* keyword (a stale entry stays until a later write replaces it).          *)
(***************************************************************************)
C25_EntriesNeverDeleted ==
    [][\A row \in trending_keywords :
          Cardinality({next \in trending_keywords' : next.keyword = row.keyword}) = 1]_vars

\* a resolution has written an entry while the seed entries, now stale, are still stored
C25_Witness ==
    \E r \in Requests, row \in trending_keywords :
        /\ Resolved(r) /\ writes[r] # <<>>
        /\ row.keyword # q[r]
        /\ AgeMinutes(row) >= TTL_MINUTES

(***************************************************************************)
(* C26.  In every cache-miss resolution the Signal fetch completes (with   *)
(* success or unavailable) before the Enrichment call is issued, the       *)
(* Enrichment call is issued whether Signal succeeded or not, and the      *)
(* request asks for the steered shape (category, pinterest_volume,         *)
(* pinterest_related) exactly when Signal succeeded and for the unsteered  *)
(* shape (momentum_score, search_volume, category, related, history)       *)
(* exactly when Signal was unavailable.                                    *)
(***************************************************************************)
C26_SignalThenEnrichment ==
    \A r \in Requests :
        /\ pc[r] = "signal" =>
              /\ calls[r] = [signal |-> 1, ai |-> 0]
              /\ results[r] = <<>>
              /\ prompt[r] = {}
        /\ AwaitsGemini(r) => results[r] # <<>>
        /\ (AwaitsGemini(r) \/ Resolved(r)) =>
              /\ calls[r] = [signal |-> 1, ai |-> 1]
              /\ prompt[r] = SteeredKeys <=> SignalOk(r)
              /\ prompt[r] = UnsteeredKeys <=> ~SignalOk(r)

\* a resolution without Signal data has asked Gemini for the full shape and merged it
C26_Witness ==
    \E r \in Requests :
        /\ Resolved(r) /\ path[r] = "merge"
        /\ ~SignalOk(r)
        /\ prompt[r] = UnsteeredKeys
        /\ calls[r] = [signal |-> 1, ai |-> 1]

(***************************************************************************)
(* C27.  The Signal adapter is atomic over its two fetches: when either    *)
(* the interest-over-time fetch or the related-queries fetch fails, the    *)
(* whole call is unavailable; a result that reaches Merge is complete (it  *)
(* has momentum_score, search_volume, related and history) and comes from  *)
(* two fetches that both succeeded.                                        *)
(***************************************************************************)
FetchFailed(answer) == CallFailed(answer) \/ Malformed(answer)

C27_SignalAtomic ==
    \A r \in Requests :
        AwaitsGemini(r) =>
            LET iot == results[r][1]
                rq == results[r][2]
            IN  /\ (FetchFailed(iot) \/ FetchFailed(rq)) => realData[r] = null
                /\ SignalOk(r) =>
                      /\ ~FetchFailed(iot) /\ ~FetchFailed(rq)
                      /\ DOMAIN realData[r] =
                            {"momentum_score", "search_volume", "related", "history"}

\* the interest series arrived with points, the related-queries fetch failed, and the
\* adapter returned null
C27_Witness ==
    \E r \in Requests :
        /\ AwaitsGemini(r)
        /\ WellFormed(results[r][1]) /\ SeriesOf(results[r][1]) # <<>>
        /\ FetchFailed(results[r][2])
        /\ realData[r] = null

(***************************************************************************)
(* C28.  The related-keyword list of a successful Signal result is the     *)
(* first 5 entries of the provider's ranked list of related queries, in    *)
(* rank order, or all of them when there are fewer than 5; when the        *)
(* provider returns no related terms the result is still successful, with  *)
(* an empty related list.                                                  *)
(***************************************************************************)
C28_SignalRelatedTopFive ==
    \A r \in Requests :
        AwaitsGemini(r) =>
            LET iot == results[r][1]
                rq == results[r][2]
            IN  (WellFormed(iot) /\ SeriesOf(iot) # <<>> /\ WellFormed(rq)) =>
                    LET ranked == RankedOf(rq)
                    IN  /\ SignalOk(r)
                        /\ Len(realData[r].related) = IF Len(ranked) < 5 THEN Len(ranked) ELSE 5
                        /\ \A i \in 1..Len(realData[r].related) :
                              realData[r].related[i] = ranked[i]

\* the provider ranked six terms and the adapter kept the first five
C28_Witness ==
    \E r \in Requests :
        /\ AwaitsGemini(r) /\ SignalOk(r)
        /\ WellFormed(results[r][2])
        /\ Len(RankedOf(results[r][2])) = 6
        /\ realData[r].related = <<"t1", "t2", "t3", "t4", "t5">>

(***************************************************************************)
(* C29.  A cache hit leaves the store unchanged: it performs no write and  *)
(* does not refresh the entry's timestamp, so repeated hits never extend   *)
(* an entry's life, and the first resolve(k) issued 10 minutes or more     *)
(* after the entry was written re-resolves, whatever hits occurred in      *)
(* between.  lastServed[k].at is the time the last resolution of k wrote   *)
(* its entry.                                                              *)
(***************************************************************************)
C29_HitLeavesStoreUnchanged ==
    [][\A r \in Requests :
          /\ (pc[r] = "new" /\ pc'[r] = "served" /\ path'[r] = "hit") =>
                /\ trending_keywords' = trending_keywords
                /\ writes'[r] = <<>>
                /\ existing'[r] \in trending_keywords'
                /\ response'[r].last_updated = existing'[r].last_updated
          /\ (/\ pc[r] = "new" /\ pc'[r] # "new"
              /\ lastServed[q'[r]] # undefined
              /\ lastServed[q'[r]].persisted
              /\ (now - lastServed[q'[r]].at) * MinutesPerTick >= 10) =>
                /\ path'[r] # "hit"
                /\ pc'[r] \in {"signal", "crashed"}]_vars

\* a hit has served an entry that a resolution wrote 5 minutes ago; the entry is
\* stored as it was written
C29_Witness ==
    \E r \in Requests :
        /\ Served(r) /\ path[r] = "hit"
        /\ lastServed[q[r]] # undefined
        /\ AgeMinutes(existing[r]) = 5
        /\ existing[r].last_updated = lastServed[q[r]].at
        /\ existing[r] \in trending_keywords

(***************************************************************************)
(* C30.  Whenever a cache-miss resolution of k persists successfully, the  *)
(* record it returns agrees field for field (keyword, source, category,    *)
(* momentum_score, search_volume, related_keywords, historical_data) with  *)
(* the entry for k that is in the store at the moment it responds, on the  *)
(* merge path and on the Fallback path, also when other resolutions of k   *)
(* are in flight.                                                          *)
(***************************************************************************)
\* the write of the record r responds with has succeeded
Persisted(r) == Resolved(r) /\ lastServed[q[r]].persisted

AgreesWithStore(resp, row) ==
    \A f \in TrendFields :
        resp[f] = IF f \in {"related_keywords", "historical_data"}
                  THEN Decoded(row[f]) ELSE row[f]

C30_ResponseAgreesWithStore ==
    \A r \in Requests :
        Persisted(r) =>
            /\ RowsOf(q[r]) # {}
            /\ \A row \in RowsOf(q[r]) : AgreesWithStore(response[r], row)

\* a resolution has responded on the Fallback path while another resolution of the
\* same keyword awaits a provider
C30_Witness ==
    \E r \in Requests, other \in Requests :
        /\ other # r
        /\ Persisted(r) /\ path[r] = "fallback"
        /\ q[other] = q[r]
        /\ pc[other] \in {"signal", "enrich"}
        /\ \E row \in RowsOf(q[r]) : AgreesWithStore(response[r], row)

====
